---- MODULE Spec2Model ----
(***************************************************************************)
(* Model of the agentic graph of src/agentic: the session state            *)
(* (messages, dialog_state), the agent invoker with its retry loop, the    *)
(* two routers, the entry and exit handlers, the tool node with its        *)
(* fallback, and the graph wiring of AgentGraph.define_workflow.           *)
(*                                                                         *)
(* The language model and the tools are external: a call of the primary   *)
(* assistant's chat model returns any Message of ModelResults, a call of   *)
(* a specialized assistant's bare text model returns no Message, a tool    *)
(* call returns or raises.                                                 *)
(*                                                                         *)
(* Spec is a run of one graph from its new session. The other              *)
(* specifications apply functions of the program to arguments: SpecNode    *)
(* the node functions and the edges of the graph to GraphState values,     *)
(* SpecRoute the routers to every last message, SpecStack the dialog_state *)
(* reducer to every sequence of arguments.                                 *)
(***************************************************************************)
EXTENDS Integers, Sequences, FiniteSets, TLC

VARIABLES
  messages,      \* GraphState["messages"]: the persisted log
  dialog_state,  \* GraphState["dialog_state"]: the stack of delegated agents
  pc,            \* the node the engine runs next, START, END or "error"
  work,          \* Assistant.__call__: its local state["messages"]
  ncalls,        \* Assistant.__call__: runnable.invoke calls made so far
  nempty,        \* of these, the results the loop refused
  result,        \* Assistant.__call__: what runnable.invoke returned last
  error,         \* the "error" key the tool node's fallback was given, or None
  entered,       \* Len(messages) when the running/last __call__ was entered
  ran,           \* the node that ran last (START: the user's input)
  loaded         \* Len(messages) of the checkpoint the run started from

vars == <<messages, dialog_state, pc, work, ncalls, nempty, result, error,
          entered, ran, loaded>>

-----------------------------------------------------------------------------
(* Bounds *)

\* tool calls in one model result
MaxCalls == 2
\* results one __call__ may refuse before the model complies
MaxRetries == 2
\* messages a run may add to the log before user and model stop adding
MaxLog == 5
\* calls of the dialog_state reducer in a row
MaxOps == 4

-----------------------------------------------------------------------------
(* Names *)

START == "__start__"
END == "__end__"
ERROR == "error"

ToArchitectAssistant == "ToArchitectAssistant"
ToCoderAssistant == "ToCoderAssistant"
ToTesterAssistant == "ToTesterAssistant"
CompleteOrEscalate == "CompleteOrEscalate"
\* a tool name that none of the assistants binds
OtherTool == "write_file"

PrimaryName == "primary_assistant"
SecondaryNames == {"architect_assistant", "coder_assistant", "tester_assistant"}
AgentNames == {PrimaryName} \cup SecondaryNames

\* f"enter_{assistant.name}", f"{assistant.name}_tools"
EnterOf(a) ==
  CASE a = "architect_assistant" -> "enter_architect_assistant"
    [] a = "coder_assistant" -> "enter_coder_assistant"
    [] a = "tester_assistant" -> "enter_tester_assistant"

ToolsOf(a) ==
  CASE a = "primary_assistant" -> "primary_assistant_tools"
    [] a = "architect_assistant" -> "architect_assistant_tools"
    [] a = "coder_assistant" -> "coder_assistant_tools"
    [] a = "tester_assistant" -> "tester_assistant_tools"

\* the routing tool the primary assistant binds for each secondary assistant
HandoffOf(a) ==
  CASE a = "architect_assistant" -> ToArchitectAssistant
    [] a = "coder_assistant" -> ToCoderAssistant
    [] a = "tester_assistant" -> ToTesterAssistant

-----------------------------------------------------------------------------
(* Messages *)

\* content: a string (blocks = <<>> is "", else its text) or a list of
\* blocks, each given by its "text" ("" : the block has no text)
StrContent(s) == [kind |-> "str", blocks |-> IF s = "" THEN <<>> ELSE <<s>>]
ListContent(bs) == [kind |-> "list", blocks |-> bs]

NoCalls == <<>>
\* tool_call_id of a message that answers no tool call
NoId == <<>>

HumanMessage(text, name) ==
  [type |-> "human", name |-> name, content |-> StrContent(text),
   tool_calls |-> NoCalls, tool_call_id |-> NoId]

AIMessage(content, calls) ==
  [type |-> "ai", name |-> "", content |-> content,
   tool_calls |-> calls, tool_call_id |-> NoId]

ToolMessage(text, id) ==
  [type |-> "tool", name |-> "", content |-> StrContent(text),
   tool_calls |-> NoCalls, tool_call_id |-> id]

Last(s) == s[Len(s)]

\* a ToolCall of a model result: args is the payload ("" when not modelled)
ToolCall(id, name, args) == [id |-> id, name |-> name, args |-> args]

ToolNames ==
  {ToArchitectAssistant, ToCoderAssistant, ToTesterAssistant,
   CompleteOrEscalate, OtherTool}

\* CompleteOrEscalate.cancel defaults to True; other payloads are not modelled
DefaultArgs(n) == IF n = CompleteOrEscalate THEN "cancel=True" ELSE ""

\* what a model asks for in one tool call: in a run of the graph, and
\* (with the other value of cancel) as an input of the routers
CallOptions == {[name |-> n, args |-> DefaultArgs(n)] : n \in ToolNames}
AllCallOptions ==
  CallOptions \cup {[name |-> CompleteOrEscalate, args |-> "cancel=False"]}

CallListsOf(options) == UNION {[1..k -> options] : k \in 0..MaxCalls}
CallLists == CallListsOf(CallOptions)

\* ids are fresh: the call at position i of the message at position n
WithIds(cl, n) == [i \in 1..Len(cl) |-> ToolCall(<<n, i>>, cl[i].name, cl[i].args)]

TextContents == {StrContent(""), StrContent("text")}
BareContents ==
  TextContents \cup {ListContent(<<>>), ListContent(<<"">>), ListContent(<<"text">>),
                     ListContent(<<"", "text">>)}

\* what the primary assistant's runnable, the prompt piped into the chat
\* model with the routing tools bound, may return as the n-th message of
\* the log
ModelResults(n) ==
  {AIMessage(c, NoCalls) : c \in BareContents}
  \cup {AIMessage(c, WithIds(cl, n)) : c \in TextContents, cl \in CallLists \ {<<>>}}

DirectiveText == "Respond with a real output."
\* ("user", "Respond with a real output."): a human message with no name
Directive == HumanMessage(DirectiveText, "")
\* HumanMessage(content=user_input, name="user")
UserMessage(text) == HumanMessage(text, "user")
UserInputs == {"hello"}

-----------------------------------------------------------------------------
(* utils.py *)

None == "<None>"

\* update_dialog_stack whose "pop" drops the oldest entry
update_dialog_stack_PopFront(left, right) ==
  IF right = None THEN left
  ELSE IF right = "pop" THEN SubSeq(left, 2, Len(left))
  ELSE Append(left, right)

\* update_dialog_stack without its "pop" branch
update_dialog_stack_NoPop(left, right) ==
  IF right = None THEN left
  ELSE Append(left, right)

update_dialog_stack(left, right) ==
  IF right = None THEN left
  ELSE IF right = "pop" THEN SubSeq(left, 1, Len(left) - 1)
  ELSE Append(left, right)

\* the dialog_state channel after a node's update: its reducer is called
\* with the value of the key where the update has the key, and not at all
\* where it has none
Reduced(state, update) ==
  IF "dialog_state" \in DOMAIN update
  THEN update_dialog_stack(state.dialog_state, update.dialog_state)
  ELSE state.dialog_state

\* a merge of a messages channel without its add_messages reducer: the
\* update takes the place of the log
Merge_Overwrite(state, update) ==
  [messages |-> update.messages, dialog_state |-> Reduced(state, update)]

\* a node's update merged into the state: add_messages appends the new
\* messages (all of them carry fresh message ids), dialog_state goes
\* through its reducer
Merge(state, update) ==
  [messages |-> state.messages \o update.messages,
   dialog_state |-> Reduced(state, update)]

ErrorText(e) == "Error: " \o e \o "\n please fix your mistakes."

\* handle_tool_error answering the first tool call only
handle_tool_error_FirstCall(state, e) ==
  [messages |-> <<ToolMessage(ErrorText(e), Last(state.messages).tool_calls[1].id)>>]

\* handle_tool_error(state) with state["error"] = e
handle_tool_error(state, e) ==
  LET tool_calls == Last(state.messages).tool_calls
  IN [messages |-> [i \in 1..Len(tool_calls) |->
                      ToolMessage(ErrorText(e), tool_calls[i].id)]]

EntryText(assistant_name) ==
  "The assistant is now the " \o assistant_name
  \o ". Reflect on the above conversation between the primary assistant and the user."
  \o " The user's intent is unsatisfied. Use the provided tools to assist the user. Remember, you are "
  \o assistant_name \o ","
  \o " and the identification, resolution, or any other action is not complete until after you have successfully invoked the appropriate tool."
  \o " If the user changes their mind or needs help for other tasks, call the CompleteOrEscalate function to let the primary assistant take control."
  \o " Do not mention who you are - just act as the proxy for the assistant."

\* what `def entry_node(state: TypedDict)` raises where annotations are
\* evaluated when the def runs: utils.py does not import TypedDict
NameError == "NameError: name 'TypedDict' is not defined"

\* how the interpreter treats the annotations of a def: evaluated when the
\* def runs (Python before 3.14), or not until they are asked for
Annotations == {"eager", "lazy"}

\* create_entry_node(assistant_name, new_dialog_state): it raises NameError
\* under eager annotations, whatever its arguments are, and else returns
\* the function entry_node below
create_entry_node(annotations) ==
  IF annotations = "eager" THEN NameError ELSE "entry_node"

\* entry_node with its two names taken for one another in dialog_state
entry_node_PushLabel(assistant_name, new_dialog_state, state) ==
  LET tool_call_id == Last(state.messages).tool_calls[1].id
  IN [messages |-> <<ToolMessage(EntryText(assistant_name), tool_call_id)>>,
      dialog_state |-> assistant_name]

\* the entry_node that create_entry_node(assistant_name, new_dialog_state)
\* returns where it returns one, applied to state
entry_node(assistant_name, new_dialog_state, state) ==
  LET tool_call_id == Last(state.messages).tool_calls[1].id
  IN [messages |-> <<ToolMessage(EntryText(assistant_name), tool_call_id)>>,
      dialog_state |-> new_dialog_state]

ResumeText ==
  "Resuming dialog with the primary assistant."
  \o " Please reflect on the past conversation and assist the user as needed."

\* pop_dialog_state answering the first tool call of the whole log
pop_dialog_state_FirstAsk(state) ==
  LET asks == {i \in 1..Len(state.messages) :
                 state.messages[i].tool_calls # <<>>}
      first == CHOOSE i \in asks : \A j \in asks : i <= j
  IN [messages |-> IF asks # {}
                   THEN <<ToolMessage(ResumeText,
                                      state.messages[first].tool_calls[1].id)>>
                   ELSE <<>>,
      dialog_state |-> "pop"]

pop_dialog_state(state) ==
  LET last == Last(state.messages)
  IN [messages |-> IF last.tool_calls # <<>>
                   THEN <<ToolMessage(ResumeText, last.tool_calls[1].id)>>
                   ELSE <<>>,
      dialog_state |-> "pop"]

\* route_to_workflow that never looks at the stack
route_to_workflow_Primary(state) == "primary_assistant"

route_to_workflow(state) ==
  IF state.dialog_state = <<>> THEN "primary_assistant"
  ELSE Last(state.dialog_state)

\* john_doe -> John Doe, on the names the graph passes
format_name(name) ==
  CASE name = "architect_assistant" -> "Architect Assistant"
    [] name = "coder_assistant" -> "Coder Assistant"
    [] name = "tester_assistant" -> "Tester Assistant"
    [] name = "primary_assistant" -> "Primary Assistant"

-----------------------------------------------------------------------------
(* assistants.py *)

\* Python's truth value of a content: "" and [] are false
Truthy(content) == content.blocks # <<>>

\* Refused without its test of a list-shaped content
Refused_NoListTest(res) ==
  /\ res.tool_calls = <<>>
  /\ ~Truthy(res.content)

\* __call__ without its retry: no result is refused
Refused_Never(res) == FALSE

\* the test of Assistant.__call__ that refuses a result
Refused(res) ==
  /\ res.tool_calls = <<>>
  /\ \/ ~Truthy(res.content)
     \/ /\ res.content.kind = "list"
        /\ res.content.blocks[1] = ""

\* langgraph.prebuilt.tools_condition on the state's last message
tools_condition(state) ==
  IF Len(Last(state.messages).tool_calls) > 0 THEN "tools" ELSE END

InvalidRoute == "ValueError: Invalid route"

\* PrimaryAssistant.__init__: basic_tools = [], routing_tools = [To...]
PrimaryBasicTools == {}
Handoffs == {ToArchitectAssistant, ToCoderAssistant, ToTesterAssistant}

\* PrimaryAssistant.route_assistant deciding by any tool call, not the first
PrimaryRoute_AnyCall(name, state) ==
  IF tools_condition(state) = END THEN END
  ELSE LET tool_calls == Last(state.messages).tool_calls
           has(n) == \E i \in 1..Len(tool_calls) : tool_calls[i].name = n
       IN IF has(ToArchitectAssistant) THEN "enter_architect_assistant"
          ELSE IF has(ToCoderAssistant) THEN "enter_coder_assistant"
          ELSE IF has(ToTesterAssistant) THEN "enter_tester_assistant"
          ELSE ToolsOf(name)

\* PrimaryAssistant.route_assistant, self.name = name
PrimaryRoute(name, state) ==
  IF tools_condition(state) = END THEN END
  ELSE LET tool_calls == Last(state.messages).tool_calls
       IN IF tool_calls # <<>>
          THEN IF tool_calls[1].name = ToArchitectAssistant
                 THEN "enter_architect_assistant"
               ELSE IF tool_calls[1].name = ToCoderAssistant
                 THEN "enter_coder_assistant"
               ELSE IF tool_calls[1].name = ToTesterAssistant
                 THEN "enter_tester_assistant"
               ELSE ToolsOf(name)
          ELSE InvalidRoute

\* SecondaryAssistant.route_assistant looking at the first tool call only
SecondaryRoute_FirstCall(name, state) ==
  IF tools_condition(state) = END THEN END
  ELSE IF Last(state.messages).tool_calls[1].name = CompleteOrEscalate
       THEN "leave_skill"
       ELSE ToolsOf(name)

\* SecondaryAssistant.route_assistant that leaves only from a non-empty stack
SecondaryRoute_ByStack(name, state) ==
  IF tools_condition(state) = END THEN END
  ELSE LET tool_calls == Last(state.messages).tool_calls
           did_cancel == \E i \in 1..Len(tool_calls) :
                           tool_calls[i].name = CompleteOrEscalate
       IN IF did_cancel /\ state.dialog_state # <<>> THEN "leave_skill"
          ELSE ToolsOf(name)

\* SecondaryAssistant.route_assistant, self.name = name
SecondaryRoute(name, state) ==
  IF tools_condition(state) = END THEN END
  ELSE LET tool_calls == Last(state.messages).tool_calls
           did_cancel == \E i \in 1..Len(tool_calls) :
                           tool_calls[i].name = CompleteOrEscalate
       IN IF did_cancel THEN "leave_skill" ELSE ToolsOf(name)

route_assistant(name, state) ==
  IF name = PrimaryName THEN PrimaryRoute(name, state)
  ELSE SecondaryRoute(name, state)

-----------------------------------------------------------------------------
(* graph.py: AgentGraph.define_workflow *)

ToolNodes == {ToolsOf(a) : a \in AgentNames}
EnterNodes == {EnterOf(a) : a \in SecondaryNames}
Nodes == AgentNames \cup ToolNodes \cup EnterNodes \cup {"leave_skill"}

\* the targets add_conditional_edges declares for an agent node
DeclaredTargets(a) ==
  IF a = PrimaryName
  THEN {"enter_device_assistant", "enter_telco_contract_assistant",
        "primary_assistant_tools", END}
  ELSE {ToolsOf(a), "leave_skill", END}

\* The conditional edge out of agent node a: the router's value is looked
\* up among the targets declared for a. A value that is not declared, or a
\* router that raises, fails the step: the exception leaves run_graph_flow
\* and the update of the failed step is not merged into the session.
Branch(a, state) ==
  LET r == route_assistant(a, state)
  IN IF r \in DeclaredTargets(a) THEN r ELSE ERROR

\* every tool node wired back to the first specialized agent
OwnerOf_Architect(n) == "architect_assistant"

\* the owner of a tool node: add_edge(f"{name}_tools", name)
OwnerOf(n) == CHOOSE a \in AgentNames : ToolsOf(a) = n

State == [messages |-> messages, dialog_state |-> dialog_state]

NoResult == AIMessage(StrContent(""), NoCalls)

\* The engine persists the merged state and moves to node target; an agent
\* node starts its __call__ on the state it is given.
Advance(node, merged, target, err) ==
  /\ messages' = merged.messages
  /\ error' = err
  /\ dialog_state' = merged.dialog_state
  /\ pc' = target
  /\ ran' = node
  /\ work' = IF target \in AgentNames THEN merged.messages ELSE <<>>
  /\ ncalls' = 0
  /\ nempty' = 0
  /\ result' = NoResult
  /\ entered' = Len(merged.messages)
  /\ UNCHANGED loaded

Room == Len(messages) - loaded < MaxLog

\* graph.stream({"messages": [HumanMessage(...)]}): the user's message is
\* merged (the input has no dialog_state key) and the START edge routes
StartEdge ==
  \E text \in UserInputs :
    LET merged == Merge(State, [messages |-> <<UserMessage(text)>>])
    IN Advance(START, merged, route_to_workflow(merged), None)

\* run_graph_flow, called by main's loop once the turn before has ended
UserTurn ==
  /\ pc \in {START, END}
  /\ Room
  /\ StartEdge

\* self.runnable.invoke(state) in the __call__ of a specialized assistant
\* gives no Message: the runnable is the bare OllamaLLM of graph.py:58-60, a
\* text model with no prompt in front of it and no tools bound, called with
\* the state dict. The call raises on the dict; a text returned in its
\* place has no tool_calls for assistants.py:27 to read. Either way
\* __call__ raises.
InvokeRaises(a) == a \in SecondaryNames

\* Assistant.__call__ of agent a, one pass of its loop: the model is invoked
\* on the working copy; a refused result adds the directive to the working
\* copy and loops, any other result is returned, merged and routed. Where
\* the invoke raises, the step fails and nothing is merged.
Call(a) ==
  IF InvokeRaises(a)
  THEN /\ pc' = ERROR
       /\ ran' = a
       /\ ncalls' = ncalls + 1
       /\ UNCHANGED <<messages, dialog_state, work, nempty, result, error,
                      entered, loaded>>
  ELSE \E r \in ModelResults(Len(messages) + 1) :
         /\ result' = r
         /\ ncalls' = ncalls + 1
         /\ UNCHANGED <<error, entered, loaded>>
         /\ IF Refused(r)
            THEN /\ nempty < MaxRetries
                 /\ work' = Append(work, Directive)
                 /\ nempty' = nempty + 1
                 /\ UNCHANGED <<messages, dialog_state, pc, ran>>
            ELSE LET merged == Merge(State, [messages |-> <<r>>])
                     target == Branch(a, merged)
                 IN /\ pc' = target
                    /\ ran' = a
                    /\ UNCHANGED <<work, nempty>>
                    /\ IF target = ERROR
                       THEN UNCHANGED <<messages, dialog_state>>
                       ELSE /\ messages' = merged.messages
                            /\ dialog_state' = merged.dialog_state

\* agent node a, when the engine has come to it
AgentInvoke(a) ==
  /\ pc = a
  /\ Room
  /\ Call(a)

ToolErrors == {"ToolException('failed')"}

\* ToolNode(tools): one ToolMessage per tool call of the last message
ToolResults(state) ==
  LET tool_calls == Last(state.messages).tool_calls
  IN [messages |-> [i \in 1..Len(tool_calls) |->
                      ToolMessage("result", tool_calls[i].id)]]

\* create_tool_node_with_fallback(tools) as node n: the tools run; if one of
\* them raises, handle_tool_error answers instead. Then the edge to the owner.
ToolNodeWithFallback(n) ==
  \E raised \in BOOLEAN, e \in ToolErrors :
    LET update == IF raised THEN handle_tool_error(State, e)
                  ELSE ToolResults(State)
    IN Advance(n, Merge(State, update), OwnerOf(n),
               IF raised THEN e ELSE None)

\* tool node n, when the engine has come to it
ToolExec(n) ==
  /\ pc = n
  /\ ToolNodeWithFallback(n)

\* node enter_<a>, then add_edge(f"enter_{a}", a). No conditional edge
\* declares enter_<a> as a target, so no run of the graph comes to it.
EnterSkill(a) ==
  Advance(EnterOf(a), Merge(State, entry_node(format_name(a), a, State)), a,
          None)

\* node leave_skill, then add_edge("leave_skill", "primary_assistant"). The
\* only edges to leave_skill are those of the specialized agents, so no run
\* of the graph comes to it.
LeaveSkill ==
  Advance("leave_skill", Merge(State, pop_dialog_state(State)),
          "primary_assistant", None)

\* the conditional edge of agent node a, add_conditional_edges(a,
\* a.route_assistant, targets), on a state whose last message is an
\* assistant's
AgentEdge(a) ==
  /\ Last(messages).type = "ai"
  /\ ~Refused(Last(messages))
  /\ pc' = Branch(a, State)
  /\ ran' = a
  /\ result' = Last(messages)
  /\ UNCHANGED <<messages, dialog_state, work, ncalls, nempty, error, entered,
                 loaded>>

-----------------------------------------------------------------------------
(* The session a run starts from *)

\* the thread of a MemorySaver that define_workflow has just made
NewSession == [messages |-> <<>>, dialog_state |-> <<>>]

BUILD == "define_workflow"
GRAPH == "graph"

\* define_workflow: the first node it adds after the assistants are made is
\* an entry node, so it ends in what create_entry_node raises, or with
\* self.graph compiled
define_workflow(annotations) ==
  IF create_entry_node(annotations) = NameError THEN NameError ELSE GRAPH

\* main: AgentGraph(...), define_workflow(), then run_graph_flow per input.
\* Where define_workflow raised there is no graph and nothing runs.
Init ==
  \E annotations \in Annotations :
    /\ messages = NewSession.messages
    /\ dialog_state = NewSession.dialog_state
    /\ loaded = 0
    /\ pc = IF define_workflow(annotations) = GRAPH THEN START ELSE ERROR
    /\ ran = BUILD
    /\ work = <<>>
    /\ ncalls = 0
    /\ nempty = 0
    /\ result = NoResult
    /\ error = None
    /\ entered = 0

Next ==
  \/ UserTurn
  \/ \E a \in AgentNames : AgentInvoke(a)
  \/ \E n \in ToolNodes : ToolExec(n)

Spec == Init /\ [][Next]_vars

-----------------------------------------------------------------------------
(* The node functions and the edges of the graph as functions of the       *)
(* GraphState they are given. InitNode draws the argument; one step        *)
(* applies one node function with the edge behind it, or one conditional   *)
(* edge, to that argument. The arguments are values of the type            *)
(* GraphState: the functions are applied to them whether or not a run of   *)
(* the graph hands them such a state (a run hands the entry nodes,         *)
(* leave_skill and the specialized agents none). Where define_workflow     *)
(* raised there is no node and no edge to apply.                           *)

INPUT == "input"

\* the stacks given: up to two specialized agents
NodeStacks ==
  {<<>>} \cup {<<a>> : a \in SecondaryNames}
  \cup {<<a, b>> : a \in SecondaryNames, b \in SecondaryNames}

\* an assistant message with the tool calls cl, as the n-th of a log
Ask(cl, n) == AIMessage(StrContent(""), WithIds(cl, n))

\* the logs that end with an assistant's message: the user's message and
\* the assistant's, alone or after an earlier answered tool call
AskedLogs ==
  {<<UserMessage("hello"), Ask(cl, 2)>> : cl \in CallLists}
  \cup {<<UserMessage("hello"),
          Ask(<<[name |-> OtherTool, args |-> ""]>>, 2),
          ToolMessage("result", <<2, 1>>),
          Ask(cl, 4)>> : cl \in CallLists}

\* the nodes the builder holds after define_workflow: none where it raised
\* (the raise comes before the first add_node returns), else all of them
NodesBuilt(annotations) ==
  IF define_workflow(annotations) = GRAPH THEN Nodes ELSE {}

\* the START edge is added after the nodes, so only where nothing raised
EdgesFromStart(annotations) ==
  IF define_workflow(annotations) = GRAPH THEN {START} ELSE {}

\* the GraphState values given: a log that ends with the user's message or
\* with an assistant's, and a stack
NodeArgs ==
  {[messages |-> log, dialog_state |-> st] :
     log \in {<<UserMessage("hello")>>} \cup AskedLogs, st \in NodeStacks}

InitNode ==
  \E annotations \in Annotations :
    \E s \in NodeArgs :
      /\ NodesBuilt(annotations) \cup EdgesFromStart(annotations) # {}
      /\ messages = s.messages
      /\ dialog_state = s.dialog_state
      /\ loaded = Len(s.messages)
      /\ pc = INPUT
      /\ ran = BUILD
      /\ work = <<>>
      /\ ncalls = 0
      /\ nempty = 0
      /\ result = NoResult
      /\ error = None
      /\ entered = Len(s.messages)

\* one function applied to the argument: the START edge to any state, an
\* agent's __call__ to a log that ends with the user's message, a tool node
\* or an entry node to a last message that holds a tool call, leave_skill
\* and the conditional edges to a last message of an assistant
NextNode ==
  \/ pc = INPUT /\ StartEdge
  \/ \E a \in SecondaryNames :
       pc = INPUT /\ Last(messages).type = "human" /\ Call(a)
  \/ \E n \in ToolNodes :
       pc = INPUT /\ Last(messages).tool_calls # <<>> /\ ToolNodeWithFallback(n)
  \/ \E a \in SecondaryNames :
       pc = INPUT /\ Last(messages).tool_calls # <<>> /\ EnterSkill(a)
  \/ pc = INPUT /\ Last(messages).type = "ai" /\ LeaveSkill
  \/ \E a \in AgentNames : pc = INPUT /\ AgentEdge(a)

SpecNode == InitNode /\ [][NextNode]_vars

-----------------------------------------------------------------------------
(* The routers as functions of the state: every last message a model can   *)
(* return, after every log and stack of RouterPrefixes, is routed by every *)
(* agent's router.                                                         *)

ROUTE == "route"

\* what comes before the last message in the states given to the routers
RouterPrefixes ==
  {NewSession}
  \cup {[messages |-> <<UserMessage("hello")>>, dialog_state |-> st] :
          st \in NodeStacks}

RouterInputs(n) ==
  {AIMessage(c, WithIds(cl, n)) :
     c \in BareContents, cl \in CallListsOf(AllCallOptions)}

InitRoute ==
  \E s \in RouterPrefixes :
    \E last \in RouterInputs(Len(s.messages) + 1) :
      /\ messages = Append(s.messages, last)
      /\ dialog_state = s.dialog_state
      /\ loaded = Len(s.messages)
      /\ pc = ROUTE
      /\ ran = START
      /\ work = <<>>
      /\ ncalls = 0
      /\ nempty = 0
      /\ result = last
      /\ error = None
      /\ entered = Len(s.messages)

\* assistant a's route_assistant(state); pc takes the value it returns
RouteStep(a) ==
  /\ pc = ROUTE
  /\ pc' = route_assistant(a, State)
  /\ ran' = a
  /\ UNCHANGED <<messages, dialog_state, work, ncalls, nempty, result, error,
                 entered, loaded>>

NextRoute == \E a \in AgentNames : RouteStep(a)

SpecRoute == InitRoute /\ [][NextRoute]_vars

-----------------------------------------------------------------------------
(* The dialog_state reducer as a function: every sequence of arguments up   *)
(* to MaxOps long is applied to the empty stack, one call after another;    *)
(* work keeps the arguments applied so far.                                 *)

REDUCE == "reduce"

\* what a node may return for dialog_state: an agent's name, "pop", or
\* nothing
ReducerArgs == AgentNames \cup {"pop", None}

InitStack ==
  /\ messages = <<>>
  /\ dialog_state = <<>>
  /\ loaded = 0
  /\ pc = REDUCE
  /\ ran = START
  /\ work = <<>>
  /\ ncalls = 0
  /\ nempty = 0
  /\ result = NoResult
  /\ error = None
  /\ entered = 0

\* one call update_dialog_stack(dialog_state, right)
Reduce(right) ==
  /\ pc = REDUCE
  /\ Len(work) < MaxOps
  /\ dialog_state' = update_dialog_stack(dialog_state, right)
  /\ work' = Append(work, right)
  /\ UNCHANGED <<messages, pc, ncalls, nempty, result, error, entered, ran,
                 loaded>>

NextStack == \E right \in ReducerArgs : Reduce(right)

SpecStack == InitStack /\ [][NextStack]_vars

-----------------------------------------------------------------------------
(* Properties *)

\* a content that is a non-empty text: a non-empty string, or a list whose
\* first block has text
HasText(content) == content.blocks # <<>> /\ content.blocks[1] # ""

Real(m) == m.tool_calls # <<>> \/ HasText(m.content)

HasCall(calls, n) == \E i \in 1..Len(calls) : calls[i].name = n

\* an agent node has just returned: no other node ran since
AgentReturned == ran \in AgentNames

\* C1: every message an agent node returns, and every assistant message
\* merged into the log, carries a tool call or a non-empty text; a result
\* with no tool calls and an empty content is never returned.
C1_ReturnedMessageIsReal ==
  /\ AgentReturned => Real(result)
  /\ \A i \in (loaded + 1)..Len(messages) :
       messages[i].type = "ai" => Real(messages[i])

\* C1 witness: after a refused result, a list-shaped content with text was
\* returned and merged.
C1_Witness ==
  /\ AgentReturned
  /\ nempty > 0
  /\ Last(messages) = result
  /\ result.tool_calls = <<>>
  /\ result.content.kind = "list"

\* C2 (as claimed): after k refused results and an accepted one, __call__
\* has made k + 1 model calls, the persisted log has gained exactly the
\* accepted message, and the k directives are in the working copy only.
C2_LogGainsExactlyTheAccepted ==
  AgentReturned =>
    /\ ncalls = nempty + 1
    /\ Len(work) = entered + nempty
    /\ \A i \in 1..Len(work) : (work[i] = Directive) <=> (i > entered)
    /\ \A i \in 1..Len(messages) : messages[i] # Directive
    /\ messages = Append(SubSeq(work, 1, entered), result)

\* C2, where the step is committed: the same, with the log unchanged when
\* the conditional edge fails the step.
C2_RetryLoopWhenCommitted ==
  AgentReturned =>
    /\ ncalls = nempty + 1
    /\ Len(work) = entered + nempty
    /\ \A i \in 1..Len(work) : (work[i] = Directive) <=> (i > entered)
    /\ \A i \in 1..Len(messages) : messages[i] # Directive
    /\ messages = IF pc = ERROR THEN SubSeq(work, 1, entered)
                  ELSE Append(SubSeq(work, 1, entered), result)

\* the target the coordinator router is to give, by the first tool call
PrimaryTarget(calls) ==
  IF calls = <<>> THEN END
  ELSE CASE calls[1].name = ToArchitectAssistant -> "enter_architect_assistant"
         [] calls[1].name = ToCoderAssistant -> "enter_coder_assistant"
         [] calls[1].name = ToTesterAssistant -> "enter_tester_assistant"
         [] OTHER -> "primary_assistant_tools"

\* C3: the coordinator router gives END when the last message has no tool
\* calls and otherwise decides by the name of the first tool call alone.
C3_PrimaryRouteByFirstCall ==
  ran = PrimaryName => pc = PrimaryTarget(Last(messages).tool_calls)

\* C3 witness: a hand-off in second place, after another tool's call, is
\* routed to the coordinator's tool node.
C3_Witness ==
  /\ ran = PrimaryName
  /\ Len(Last(messages).tool_calls) > 1
  /\ Last(messages).tool_calls[1].name = OtherTool
  /\ Last(messages).tool_calls[2].name = ToCoderAssistant
  /\ pc = "primary_assistant_tools"

\* C4 (as claimed): a first tool call that is neither a hand-off nor a tool
\* of the coordinator makes the coordinator router fail; it returns no
\* node name for it.
C4_UnknownCallFails ==
  (/\ ran = PrimaryName
   /\ Last(messages).tool_calls # <<>>
   /\ Last(messages).tool_calls[1].name \notin Handoffs \cup PrimaryBasicTools)
  => pc = InvalidRoute

\* C5: a specialized agent's router gives END when the last message has no
\* tool calls, leave_skill when any of its tool calls is CompleteOrEscalate
\* (any position, any cancel), and the agent's tool node otherwise.
C5_SecondaryRoute ==
  ran \in SecondaryNames =>
    LET calls == Last(messages).tool_calls
    IN pc = IF calls = <<>> THEN END
            ELSE IF HasCall(calls, CompleteOrEscalate) THEN "leave_skill"
            ELSE ToolsOf(ran)

\* C5 witness: CompleteOrEscalate with cancel=False in second place leads
\* to leave_skill.
C5_Witness ==
  /\ ran \in SecondaryNames
  /\ Len(Last(messages).tool_calls) > 1
  /\ Last(messages).tool_calls[1].name = OtherTool
  /\ Last(messages).tool_calls[2].name = CompleteOrEscalate
  /\ Last(messages).tool_calls[2].args = "cancel=False"
  /\ pc = "leave_skill"

\* C6 (as claimed): when the coordinator's turn ends with a message whose
\* first tool call is the hand-off for agent a, the node that runs next is
\* a's entry handler.
C6_HandoffReachesEntry ==
  \A a \in SecondaryNames :
    (/\ ran = PrimaryName
     /\ result.tool_calls # <<>>
     /\ result.tool_calls[1].name = HandoffOf(a))
    => pc = EnterOf(a)

AllButLast(s) == SubSeq(s, 1, Len(s) - 1)

\* the conditional edge of specialized agent a is applied to a message that
\* holds a CompleteOrEscalate call
EscalateStep(a) ==
  /\ ran' = a
  /\ result' = Last(messages)
  /\ HasCall(result'.tool_calls, CompleteOrEscalate)

\* the exit handler's step answers the call with id `id`, or no call at all
\* when the triggering message has none
LeaveStepAnswers(id) ==
  /\ pc' = PrimaryName
  /\ dialog_state' = AllButLast(dialog_state)
  /\ messages' = IF Last(messages).tool_calls = <<>> THEN messages
                 ELSE Append(messages, ToolMessage(ResumeText, id))

C8_TurnStartsAtActiveAgent ==
  (ran = START /\ pc # START) =>
    pc = IF dialog_state = <<>> THEN PrimaryName
         ELSE dialog_state[Len(dialog_state)]

\* C8 witness: a turn on a state with stack [tester_assistant] starts at
\* the tester.
C8_Witness ==
  /\ ran = START
  /\ pc = "tester_assistant"
  /\ dialog_state = <<"tester_assistant">>
  /\ Last(messages).type = "human"

\* C9: when a tool of a tool node raises, the node does not fail: it adds
\* one error-describing ToolMessage for every tool call of the triggering
\* message, each with its call's id, leaves the stack alone, and the
\* owning agent runs next.
C9_FallbackAnswersEveryCall ==
  [][(pc \in ToolNodes /\ error' # None) =>
       LET calls == Last(messages).tool_calls
       IN /\ pc' = OwnerOf(pc)
          /\ dialog_state' = dialog_state
          /\ Len(messages') = Len(messages) + Len(calls)
          /\ SubSeq(messages', 1, Len(messages)) = messages
          /\ \A i \in 1..Len(calls) :
               /\ messages'[Len(messages) + i].type = "tool"
               /\ messages'[Len(messages) + i].tool_call_id = calls[i].id
               /\ messages'[Len(messages) + i].content
                    = StrContent(ErrorText(error'))]_vars

\* C9 witness: the fallback has answered a message of two tool calls and
\* the owning agent is next.
C9_Witness ==
  /\ ran \in ToolNodes
  /\ error # None
  /\ pc = OwnerOf(ran)
  /\ Len(messages) > 2
  /\ Len(messages[Len(messages) - 2].tool_calls) = 2
  /\ messages[Len(messages) - 1].tool_call_id # Last(messages).tool_call_id

\* C10: when a turn has halted, the last message of the log is an
\* assistant message with no tool calls and a non-empty text: not a user
\* message, a ToolMessage or the retry directive.
C10_ReplyIsAssistantText ==
  pc = END =>
    /\ Last(messages).type = "ai"
    /\ Last(messages).tool_calls = <<>>
    /\ HasText(Last(messages).content)
    /\ Last(messages) # Directive

\* C10 witness: a turn has halted on the agent's reply to a ToolMessage.
C10_Witness ==
  /\ pc = END
  /\ Len(messages) > loaded + 3
  /\ messages[Len(messages) - 1].type = "tool"
  /\ Last(messages).content.kind = "list"

-----------------------------------------------------------------------------
(* The graph's wiring and the invariants of a run *)

\* C11: every value an agent's router returns is a target its conditional
\* edge declares and names a node of the graph or END; the enter_* nodes
\* the primary assistant's router returns are among its declared targets.
C11_RoutesAreDeclared ==
  ran \in AgentNames =>
    /\ pc \in DeclaredTargets(ran)
    /\ pc \in Nodes \cup {END}
    /\ pc \in EnterNodes => ran = PrimaryName

\* the agent a session is with: the top of the stack, the primary assistant
\* when the stack is empty
ActiveOf(stack) == IF stack = <<>> THEN PrimaryName ELSE Last(stack)

\* What C12 and C20 say of a state s in which n is the node to run: the
\* stack is empty or holds one specialized agent; an agent node is the
\* active agent and a tool node is the active agent's; leave_skill has a
\* stack to pop; an entry node has an empty stack to push on.
AtNode(n, s) ==
  /\ Len(s.dialog_state) <= 1
  /\ \A i \in 1..Len(s.dialog_state) : s.dialog_state[i] \in SecondaryNames
  /\ n \in AgentNames => n = ActiveOf(s.dialog_state)
  /\ n \in ToolNodes => n = ToolsOf(ActiveOf(s.dialog_state))
  /\ n = "leave_skill" => s.dialog_state # <<>>
  /\ n \in EnterNodes => s.dialog_state = <<>>

\* C12: an agent node that runs is the active agent, so a specialized agent
\* runs only as the top of the stack and the primary assistant only on an
\* empty stack; leave_skill never runs on an empty stack. Shown by
\* induction over the steps of the graph: the new session at START is as
\* AtNode says, and whenever the node that runs finds the state so, the node
\* its edge leads to finds it so again.
C12_RunningAgentIsActive ==
  [][AtNode(ran', State) =>
       /\ pc' \in AgentNames => pc' = ActiveOf(dialog_state')
       /\ pc' \in ToolNodes => pc' = ToolsOf(ActiveOf(dialog_state'))
       /\ pc' = "leave_skill" => dialog_state' # <<>>]_vars

\* C12 witness: the tool node of a specialized agent has run on the stack
\* that holds this agent, and the agent is next.
C12_Witness ==
  /\ ran = "coder_assistant_tools"
  /\ pc = "coder_assistant"
  /\ dialog_state = <<"coder_assistant">>
  /\ Last(messages).type = "tool"

\* the type of the messages a node adds to the log
TypeAddedAt(node) ==
  IF node \in AgentNames THEN "ai"
  ELSE IF node \in {START, END} THEN "human"
  ELSE "tool"

\* C13: every step keeps the log it found as a prefix of the log it leaves,
\* and what it adds behind that prefix are the messages of the node that ran.
C13_LogIsAppendOnly ==
  [][/\ Len(messages') >= Len(messages)
     /\ SubSeq(messages', 1, Len(messages)) = messages
     /\ \A i \in (Len(messages) + 1)..Len(messages') :
          messages'[i].type = TypeAddedAt(pc)]_vars

\* C13 witness: the log has grown by a user message, an agent's message and
\* the ToolMessages of two tool calls.
C13_Witness ==
  /\ ran \in ToolNodes
  /\ Len(messages) >= 4
  /\ messages[1].type = "human"
  /\ messages[2].type = "ai"
  /\ messages[3].type = "tool"
  /\ messages[4].type = "tool"

\* C14: every ToolMessage of the log carries the id of a tool call of the
\* assistant message that stands right before its block of ToolMessages.
C14_ToolMessagesAnswerTheirAsk ==
  \A i \in 1..Len(messages) :
    messages[i].type = "tool" =>
      \E j \in 1..(i - 1) :
        /\ messages[j].type = "ai"
        /\ \A k \in (j + 1)..i : messages[k].type = "tool"
        /\ \E c \in 1..Len(messages[j].tool_calls) :
             messages[j].tool_calls[c].id = messages[i].tool_call_id

\* C14 witness: leave_skill has answered a message of two tool calls, in a
\* log that holds an earlier answered tool call.
C14_Witness ==
  /\ ran = "leave_skill"
  /\ loaded = 4
  /\ Last(messages).type = "tool"
  /\ Len(messages[Len(messages) - 1].tool_calls) = 2

\* C15: the retry loop of an agent has a fixed budget: once the model has
\* been refused MaxRetries times the call is over, it does not go on to
\* invoke the model again.
C15_RetryBudgetEndsCall ==
  nempty >= MaxRetries => pc \notin AgentNames

-----------------------------------------------------------------------------
(* The dialog_state reducer *)

Pushed(h) == {i \in 1..Len(h) : h[i] \notin {None, "pop"}}
Popped(h) == {i \in 1..Len(h) : h[i] = "pop"}

\* the most recent value of h that was pushed and not popped since, skip
\* pops still to be matched
RECURSIVE PendingTop(_, _)
PendingTop(h, skip) ==
  IF h = <<>> THEN None
  ELSE IF Last(h) = None THEN PendingTop(AllButLast(h), skip)
  ELSE IF Last(h) = "pop" THEN PendingTop(AllButLast(h), skip + 1)
  ELSE IF skip = 0 THEN Last(h)
  ELSE PendingTop(AllButLast(h), skip - 1)

\* N - M entries, the top is the pending value
CountsAgree(h, stack) ==
  /\ Len(stack) = Cardinality(Pushed(h)) - Cardinality(Popped(h))
  /\ stack # <<>> => Last(stack) = PendingTop(h, 0)

\* no pop of h met an empty stack: every prefix has pushed at least as often
\* as it has popped
NoPopOnEmpty(h) ==
  \A k \in 1..Len(h) :
    Cardinality(Popped(SubSeq(h, 1, k))) <= Cardinality(Pushed(SubSeq(h, 1, k)))

\* C17 as stated: N pushes and M <= N pops in any order leave N - M entries
\* and the pending value on top.
C17_AnyOrderCounts ==
  Cardinality(Popped(work)) <= Cardinality(Pushed(work)) =>
    CountsAgree(work, dialog_state)

\* C17: N pushes and M pops, none of the pops applied to an empty stack,
\* leave N - M entries and the pending value on top; every call leaves the
\* stack as it was, or removes its last entry, or appends one entry.
C17_TailOnlyStack ==
  [][/\ NoPopOnEmpty(work') => CountsAgree(work', dialog_state')
     /\ \/ dialog_state' = dialog_state
        \/ dialog_state' = AllButLast(dialog_state)
        \/ \E x \in AgentNames : dialog_state' = Append(dialog_state, x)]_vars

\* C17 witness: after pushes, a pop has uncovered an older entry.
C17_Witness ==
  /\ pc = REDUCE
  /\ NoPopOnEmpty(work)
  /\ work # <<>>
  /\ Last(work) = "pop"
  /\ dialog_state # <<>>
  /\ Cardinality(Pushed(work)) >= 3

RoundTrip(s, x) == update_dialog_stack(update_dialog_stack(s, x), "pop") = s

\* C18 as stated: a push of any value x, the string "pop" among them,
\* followed by a pop gives the stack back.
C18_RoundTripAnyValue ==
  pc = REDUCE => \A x \in AgentNames \cup {"pop"} : RoundTrip(dialog_state, x)

\* C18: a push of any value x other than "pop" and None followed by a pop
\* gives the stack back.
C18_RoundTripOfAName ==
  pc = REDUCE => \A x \in AgentNames : RoundTrip(dialog_state, x)

\* C18 witness: a stack of two different entries, the last call a push that
\* followed a pop.
C18_Witness ==
  /\ pc = REDUCE
  /\ Len(dialog_state) = 2
  /\ dialog_state[1] # dialog_state[2]
  /\ Len(work) >= 3
  /\ work[Len(work) - 1] = "pop"

-----------------------------------------------------------------------------
(* The routers as functions of the last message *)

\* the state of session s with message last at the end of its log
SessionEndingIn(s, last) ==
  [messages |-> Append(s.messages, last), dialog_state |-> s.dialog_state]

\* C19: a router's step changes neither the log nor the stack, and the
\* target it returns is the one the same router returns in every other
\* session whose last message is the same.
C19_RouteIsFunctionOfLastMessage ==
  [][pc = ROUTE /\ pc' # ROUTE =>
       /\ messages' = messages
       /\ dialog_state' = dialog_state
       /\ \A s \in RouterPrefixes :
            route_assistant(ran', SessionEndingIn(s, Last(messages))) = pc']_vars

\* C19 witness: a specialized agent's router has sent a message of two tool
\* calls to leave_skill in a session with a non-empty stack.
C19_Witness ==
  /\ ran \in SecondaryNames
  /\ pc = "leave_skill"
  /\ dialog_state # <<>>
  /\ Len(Last(messages).tool_calls) = 2

-----------------------------------------------------------------------------
(* The shape of the stack *)

\* the agent whose conditional edge has just been applied asks for a hand-off:
\* its router names an entry node
HandoffAsked ==
  /\ ran' \in AgentNames
  /\ Last(messages').type = "ai"
  /\ route_assistant(ran', [messages |-> messages',
                            dialog_state |-> dialog_state']) \in EnterNodes

\* C20: the stack is empty or holds one specialized agent; neither the
\* primary assistant nor "pop" is ever an entry; a hand-off is asked for,
\* and an entry node is the next node, on an empty stack only. Shown by
\* induction over the steps of the graph, as C12: whenever the node that
\* runs finds the state as AtNode says, it leaves the stack so.
C20_StackShape ==
  [][AtNode(ran', State) =>
       /\ Len(dialog_state') <= 1
       /\ \A i \in 1..Len(dialog_state') : dialog_state'[i] \in SecondaryNames
       /\ HandoffAsked => dialog_state' = <<>>
       /\ pc' \in EnterNodes => dialog_state' = <<>>]_vars

\* C20 witness: an entry node has run on the empty stack after a hand-off
\* call, and the stack holds the one specialized agent that is next.
C20_Witness ==
  /\ ran = "enter_architect_assistant"
  /\ pc = "architect_assistant"
  /\ dialog_state = <<"architect_assistant">>
  /\ Last(messages).type = "tool"
  /\ messages[Len(messages) - 1].tool_calls[1].name = ToArchitectAssistant

====
